---- MODULE Spec2Model ----
(***************************************************************************)
(* Model of the URL shortener of app/main.py: the two tables of the SQLite *)
(* database, the POST /urls handler create_url, statement by statement,    *)
(* and the GET /urls/{short_url} handler get_url.                          *)
(*                                                                         *)
(* Requests run concurrently (FastAPI runs synchronous handlers in a       *)
(* thread pool), each with a Session of its own (get_session).  The store  *)
(* is one SQLite file: a session's first INSERT opens a write transaction  *)
(* that holds the database's single write lock until the session commits   *)
(* or is closed; other sessions read the committed tables only; a writer   *)
(* that finds the lock taken waits, and fails with "database is locked"    *)
(* when its wait times out.                                                *)
(*                                                                         *)
(* Strings are sequences of one-character strings: "1a" is <<"1", "a">>    *)
(* and the empty string is <<>>.                                           *)
(***************************************************************************)
EXTENDS Integers, Sequences, FiniteSets, TLC

\* ------------------------------------------------------------------ bounds
\* number of request slots: requests in flight at the same time
NReq == 2
\* requests admitted in a run, submissions and lookups together
MaxRequests == 3

Reqs == 1..NReq

\* Python's None, SQL's NULL, a missing JSON field: a value that is no string
NULL == <<"NULL">>

\* the long URLs submitted: the empty string and "a"
LongUrls == {<<>>, <<"a">>}
\* the values of the custom_alias field: absent, empty, and a token that is
\* no row's short code until a second row exists and is row 2's from then on
Aliases == {NULL, <<>>, <<"2">>}
\* the tokens looked up: the codes of rows 1 and 2, and one never assigned
Tokens == {<<"1">>, <<"2">>, <<"x">>}

\* ------------------------------------------------------------------- codec
BASE62 ==
  << "0","1","2","3","4","5","6","7","8","9",
     "a","b","c","d","e","f","g","h","i","j","k","l","m",
     "n","o","p","q","r","s","t","u","v","w","x","y","z",
     "A","B","C","D","E","F","G","H","I","J","K","L","M",
     "N","O","P","Q","R","S","T","U","V","W","X","Y","Z" >>

base == Len(BASE62)

\* the symbols left in the order the loop produced them
Reverse_Missing(s) == s

Reverse(s) == [i \in 1..Len(s) |-> s[Len(s) + 1 - i]]

\* the while loop: arr collects the symbols least significant first
RECURSIVE EncodeLoop(_, _)
EncodeLoop(num, arr) ==
  IF num = 0 THEN arr
  ELSE EncodeLoop(num \div base, Append(arr, BASE62[(num % base) + 1]))

encode_numeric_id(num) ==
  IF num = 0 THEN <<BASE62[1]>>
  ELSE Reverse(EncodeLoop(num, <<>>))

\* the test written as: is not None
Truthy_NotNone(s) == s # NULL

\* Python truthiness of an optional string: None and "" are false
Truthy(s) == s # NULL /\ s # <<>>

\* ------------------------------------------------------------------- state
VARIABLES
  urls,           \* committed table urls: set of rows
  customaliases,  \* committed table customaliases: set of rows
  lock,           \* the session holding the write lock, 0 when free
  work,           \* the lock holder's uncommitted tables
  pc,             \* each request's position
  body,           \* each request's input
  rows_modified,  \* create_url local: rows the INSERT OR IGNORE returned
  short_id,       \* create_url local
  url_id,         \* create_url local
  custom_alias,   \* create_url local
  resp,           \* the response a finished request holds
  unseen,         \* history: the long URL had no row when the request came
  returned,       \* history: <<long URL, alias supplied, shortId>> answered
  aliasOk,        \* history: successful alias-carrying submissions per URL
  admitted,       \* history: the number of requests admitted so far
  num,            \* codec check: the argument of encode_numeric_id
  encoded         \* codec check: its result, NULL until computed

vars == <<urls, customaliases, lock, work, pc, body, rows_modified, short_id,
          url_id, custom_alias, resp, unseen, returned, aliasOk, admitted,
          num, encoded>>

locals == <<rows_modified, short_id, url_id, custom_alias>>
store == <<urls, customaliases, lock, work>>
hist == <<unseen, returned, aliasOk, admitted>>
codec == <<num, encoded>>

Committed == [urls |-> urls, customaliases |-> customaliases]

\* the tables as session r sees them: its own uncommitted writes included
View(r) == IF lock = r THEN work ELSE Committed

\* an identity that does not grow with the table
NextId_Const(rows) == 1

\* the rowid SQLite gives a new row of an INTEGER PRIMARY KEY table
NextId(rows) ==
  IF rows = {} THEN 1
  ELSE (CHOOSE m \in {x.id : x \in rows} : \A x \in rows : x.id <= m) + 1

NoBody == [kind |-> "none", long_url |-> NULL, custom_alias |-> NULL,
           short_url |-> NULL]
NoResp == [status |-> 0]

Init ==
  /\ urls = {}
  /\ customaliases = {}
  /\ lock = 0
  /\ work = [urls |-> {}, customaliases |-> {}]
  /\ pc = [r \in Reqs |-> "idle"]
  /\ body = [r \in Reqs |-> NoBody]
  /\ rows_modified = [r \in Reqs |-> <<>>]
  /\ short_id = [r \in Reqs |-> NULL]
  /\ url_id = [r \in Reqs |-> 0]
  /\ custom_alias = [r \in Reqs |-> NULL]
  /\ resp = [r \in Reqs |-> NoResp]
  /\ unseen = [r \in Reqs |-> FALSE]
  /\ returned = {}
  /\ aliasOk = [l \in LongUrls |-> 0]
  /\ admitted = 0
  /\ num = 0
  /\ encoded = NULL

\* ------------------------------------------------------------ SQL statements
Range(s) == {s[i] : i \in DOMAIN s}

\* the statement without OR IGNORE and without the UNIQUE constraint
InsertOrIgnore_NoConflict(rows, long_url) ==
  << [id |-> NextId(rows), short_url |-> NULL, long_url |-> long_url] >>

\* INSERT OR IGNORE INTO urls(long_url) VALUES(:long_url) RETURNING *
\* long_url is UNIQUE: a conflicting row makes the statement a no-op that
\* returns no rows; otherwise the new row is returned, short_url NULL
InsertOrIgnore(rows, long_url) ==
  IF \E x \in rows : x.long_url = long_url
  THEN <<>>
  ELSE << [id |-> NextId(rows), short_url |-> NULL, long_url |-> long_url] >>

\* the update without its WHERE clause
UpdateShortUrl_NoWhere(rows, sid, row_id) ==
  {[x EXCEPT !.short_url = sid] : x \in rows}

\* UPDATE urls SET short_url = :short_id WHERE id = :row_id
UpdateShortUrl(rows, sid, row_id) ==
  {IF x.id = row_id THEN [x EXCEPT !.short_url = sid] ELSE x : x \in rows}

\* the query without its WHERE clause
SelectIdByLongUrl_NoWhere(rows, long_url) == rows

\* SELECT id FROM urls WHERE long_url = :long_url LIMIT 1
\* the rows .first() may return; empty when .first() is None
SelectIdByLongUrl(rows, long_url) == {x \in rows : x.long_url = long_url}

\* the query without its WHERE clause
SelectShortByLongUrl_NoWhere(rows, long_url) == rows

\* SELECT short_url FROM urls WHERE long_url = :long_url
SelectShortByLongUrl(rows, long_url) == {x \in rows : x.long_url = long_url}

\* the statement without its alias parameter: the nullable column stays NULL
InsertAliasRow_NullAlias(rows, uid, alias) ==
  [id |-> NextId(rows), url_id |-> uid, alias |-> NULL]

\* INSERT INTO customaliases(url_id, alias) VALUES(:url_id, :alias) RETURNING *
InsertAliasRow(rows, uid, alias) ==
  [id |-> NextId(rows), url_id |-> uid, alias |-> alias]

\* a lookup that also follows the custom aliases
SelectByShortUrl_OrAlias(rows, token) ==
  {x \in rows : \/ x.short_url = token
                \/ \E a \in customaliases :
                     a.alias = token /\ a.url_id = x.id}

\* SELECT long_url FROM urls WHERE short_url = :short_url LIMIT 1
SelectByShortUrl(rows, token) == {x \in rows : x.short_url = token}

\* ------------------------------------------------------------- transactions
\* a write statement runs when the write lock is free or the session's own
CanWrite(r) == lock \in {0, r}

\* session.commit(): the session's writes become the committed tables
CommitUrls(r) == IF lock = r THEN work.urls ELSE urls
CommitAliases(r) == IF lock = r THEN work.customaliases ELSE customaliases
Commit(r) ==
  /\ urls' = CommitUrls(r)
  /\ customaliases' = CommitAliases(r)
  /\ lock' = IF lock = r THEN 0 ELSE lock
  /\ work' = work

\* ----------------------------------------------------------- request end
\* get_session: leaving the with block closes the session, which rolls back
\* a transaction left open and releases the write lock.  It runs as the
\* handler returns or raises, so it is part of a request's last step.
CloseSession(r) ==
  /\ lock' = IF lock = r THEN 0 ELSE lock
  /\ work' = IF lock = r THEN Committed ELSE work
  /\ UNCHANGED <<urls, customaliases>>

\* ------------------------------------------------------------ POST /urls
\* CreateURLBody: long_url is a required str, custom_alias an optional str
Validate(long_url, alias) == long_url # NULL

\* a request arrives and its body is validated
Submit(r, long_url, alias) ==
  /\ pc[r] = "idle"
  /\ admitted < MaxRequests
  /\ admitted' = admitted + 1
  /\ body' = [body EXCEPT ![r] = [kind |-> "post", long_url |-> long_url,
                                  custom_alias |-> alias, short_url |-> NULL]]
  /\ unseen' = [unseen EXCEPT ![r] =
                  long_url # NULL /\ ~\E x \in urls : x.long_url = long_url]
  /\ IF Validate(long_url, alias)
     THEN /\ pc' = [pc EXCEPT ![r] = "insert"]
          /\ resp' = resp
     ELSE /\ pc' = [pc EXCEPT ![r] = "done"]
          /\ resp' = [resp EXCEPT ![r] =
                        [status |-> 422, json |-> [detail |-> "validation"]]]
  /\ UNCHANGED <<store, locals, returned, aliasOk>>
  /\ UNCHANGED codec

\* the response of the else branch (lines 141-143)
ShortIdResp(sid) == [status |-> 200, json |-> [short_id |-> sid]]
\* the response of the alias branch (lines 124-127)
AliasResp(sid, alias) ==
  [status |-> 200, json |-> [short_id |-> sid, custom_alias |-> alias]]
\* an exception the handler does not catch
ServerError == [status |-> 500, json |-> [detail |-> "Internal Server Error"]]

\* where create_url goes once the insert branch is over (lines 99, 130)
AfterInsert(r, sid) ==
  IF Truthy(body[r].custom_alias) THEN "select_id"
  ELSE IF ~Truthy(sid) THEN "select_short"
  ELSE "done"

\* the insert committed on its own, before the short code is set
InsertUrl_Autocommit(r) ==
  /\ pc[r] = "insert"
  /\ CanWrite(r)
  /\ LET v == View(r)
         ret == InsertOrIgnore(v.urls, body[r].long_url)
     IN /\ rows_modified' = [rows_modified EXCEPT ![r] = ret]
        /\ urls' = v.urls \cup Range(ret)
        /\ customaliases' = v.customaliases
        /\ work' = [v EXCEPT !.urls = v.urls \cup Range(ret)]
        /\ lock' = IF Len(ret) > 0 THEN 0 ELSE r
        /\ pc' = [pc EXCEPT ![r] =
                    IF Len(ret) > 0 THEN "update"
                    ELSE AfterInsert(r, short_id[r])]
  /\ UNCHANGED <<body, short_id, url_id, custom_alias, resp, hist>>
  /\ UNCHANGED codec

\* lines 76-83
InsertUrl(r) ==
  /\ pc[r] = "insert"
  /\ CanWrite(r)
  /\ LET v == View(r)
         ret == InsertOrIgnore(v.urls, body[r].long_url)
     IN /\ rows_modified' = [rows_modified EXCEPT ![r] = ret]
        /\ work' = [v EXCEPT !.urls = v.urls \cup Range(ret)]
        /\ lock' = r
        /\ pc' = [pc EXCEPT ![r] =
                    IF Len(ret) > 0 THEN "update"
                    ELSE AfterInsert(r, short_id[r])]
  /\ UNCHANGED <<urls, customaliases, body, short_id, url_id, custom_alias,
                 resp, hist>>
  /\ UNCHANGED codec

\* lines 85-95
UpdateShort(r) ==
  /\ pc[r] = "update"
  /\ CanWrite(r)
  /\ LET v == View(r)
         row_id == rows_modified[r][1].id
         sid == encode_numeric_id(row_id)
     IN /\ short_id' = [short_id EXCEPT ![r] = sid]
        /\ work' = [v EXCEPT !.urls = UpdateShortUrl(v.urls, sid, row_id)]
        /\ lock' = r
  /\ pc' = [pc EXCEPT ![r] = "commit1"]
  /\ UNCHANGED <<urls, customaliases, body, rows_modified, url_id,
                 custom_alias, resp, hist>>
  /\ UNCHANGED codec

\* line 97, and the return of lines 141-143 when no alias was supplied
Commit1(r) ==
  /\ pc[r] = "commit1"
  /\ Commit(r)
  /\ pc' = [pc EXCEPT ![r] = AfterInsert(r, short_id[r])]
  /\ resp' = IF AfterInsert(r, short_id[r]) = "done"
             THEN [resp EXCEPT ![r] = ShortIdResp(short_id[r])]
             ELSE resp
  /\ UNCHANGED <<body, locals, hist>>
  /\ UNCHANGED codec

\* lines 99-109
SelectId(r) ==
  /\ pc[r] = "select_id"
  /\ LET cands == SelectIdByLongUrl(View(r).urls, body[r].long_url)
     IN IF cands = {}
        THEN \* result_row is None: TypeError
             /\ pc' = [pc EXCEPT ![r] = "done"]
             /\ resp' = [resp EXCEPT ![r] = ServerError]
             /\ url_id' = url_id
             /\ CloseSession(r)
        ELSE \E row \in cands :
               /\ url_id' = [url_id EXCEPT ![r] = row.id]
               /\ pc' = [pc EXCEPT ![r] = "insert_alias"]
               /\ resp' = resp
               /\ UNCHANGED store
  /\ UNCHANGED <<body, rows_modified, short_id, custom_alias, hist>>
  /\ UNCHANGED codec

\* lines 111-120
InsertAlias(r) ==
  /\ pc[r] = "insert_alias"
  /\ CanWrite(r)
  /\ LET v == View(r)
         row == InsertAliasRow(v.customaliases, url_id[r],
                               body[r].custom_alias)
     IN /\ work' = [v EXCEPT !.customaliases = v.customaliases \cup {row}]
        /\ custom_alias' = [custom_alias EXCEPT ![r] = row.alias]
        /\ lock' = r
  /\ pc' = [pc EXCEPT ![r] = "commit2"]
  /\ UNCHANGED <<urls, customaliases, body, rows_modified, short_id, url_id,
                 resp, hist>>
  /\ UNCHANGED codec

\* lines 122-127
Commit2(r) ==
  /\ pc[r] = "commit2"
  /\ Commit(r)
  /\ pc' = [pc EXCEPT ![r] = "done"]
  /\ resp' = [resp EXCEPT ![r] = AliasResp(short_id[r], custom_alias[r])]
  /\ UNCHANGED <<body, locals, hist>>
  /\ UNCHANGED codec

\* lines 130-143
SelectShort(r) ==
  /\ pc[r] = "select_short"
  /\ LET cands == SelectShortByLongUrl(View(r).urls, body[r].long_url)
     IN IF cands = {}
        THEN \* row is None: TypeError
             /\ resp' = [resp EXCEPT ![r] = ServerError]
             /\ short_id' = short_id
        ELSE \E row \in cands :
               /\ short_id' = [short_id EXCEPT ![r] = row.short_url]
               /\ resp' = [resp EXCEPT ![r] = ShortIdResp(row.short_url)]
  /\ pc' = [pc EXCEPT ![r] = "done"]
  /\ CloseSession(r)
  /\ UNCHANGED <<body, rows_modified, url_id, custom_alias, hist>>
  /\ UNCHANGED codec

\* a write statement whose wait for the write lock times out raises
\* OperationalError (database is locked)
Locked(r) ==
  /\ pc[r] \in {"insert", "update", "insert_alias"}
  /\ ~CanWrite(r)
  /\ pc' = [pc EXCEPT ![r] = "done"]
  /\ resp' = [resp EXCEPT ![r] = ServerError]
  /\ CloseSession(r)
  /\ UNCHANGED <<body, locals, hist>>
  /\ UNCHANGED codec

\* ------------------------------------------------- GET /urls/{short_url}
NotFound == [status |-> 404, json |-> [detail |-> "shortlink not found"]]

\* the handler without its except clause
GetResp_NoExcept(cands, result) ==
  [status |-> 200, json |-> [long_url |-> result.long_url]]

\* lines 158-167: result is the row .first() returned, None when no row
\* matched, and then result["long_url"] raises TypeError
GetResp(cands, result) ==
  IF cands = {} THEN NotFound
  ELSE [status |-> 200, json |-> [long_url |-> result.long_url]]

get_url(r, token) ==
  /\ pc[r] = "idle"
  /\ admitted < MaxRequests
  /\ admitted' = admitted + 1
  /\ body' = [body EXCEPT ![r] = [kind |-> "get", long_url |-> NULL,
                                  custom_alias |-> NULL, short_url |-> token]]
  /\ LET cands == SelectByShortUrl(View(r).urls, token)
     IN \E result \in cands \cup {NoBody} :
          /\ cands # {} => result \in cands
          /\ resp' = [resp EXCEPT ![r] = GetResp(cands, result)]
  /\ pc' = [pc EXCEPT ![r] = "done"]
  /\ CloseSession(r)
  /\ UNCHANGED <<locals, unseen, returned, aliasOk>>
  /\ UNCHANGED codec

\* ---------------------------------------------------------------- client
IsPost(r) == body[r].kind = "post"
IsGet(r) == body[r].kind = "get"
HasAlias(r) == IsPost(r) /\ Truthy(body[r].custom_alias)
Ok(r) == pc[r] = "done" /\ resp[r].status = 200

\* the shortId answers remembered: every answer to a submission without
\* alias, and the answers to alias-carrying ones that hold a short id
Remembered(r) ==
  /\ IsPost(r)
  /\ resp[r].status = 200
  /\ ~HasAlias(r) \/ resp[r].json.short_id # NULL

\* the client receives the response; the slot is free for the next request
Deliver(r) ==
  /\ pc[r] = "done"
  /\ returned' = IF Remembered(r)
                 THEN returned \cup {<<body[r].long_url, HasAlias(r),
                                      resp[r].json.short_id>>}
                 ELSE returned
  /\ aliasOk' = IF HasAlias(r) /\ resp[r].status = 200
                THEN [aliasOk EXCEPT ![body[r].long_url] = @ + 1]
                ELSE aliasOk
  /\ pc' = [pc EXCEPT ![r] = "idle"]
  /\ body' = [body EXCEPT ![r] = NoBody]
  /\ resp' = [resp EXCEPT ![r] = NoResp]
  /\ rows_modified' = [rows_modified EXCEPT ![r] = <<>>]
  /\ short_id' = [short_id EXCEPT ![r] = NULL]
  /\ url_id' = [url_id EXCEPT ![r] = 0]
  /\ custom_alias' = [custom_alias EXCEPT ![r] = NULL]
  /\ unseen' = [unseen EXCEPT ![r] = FALSE]
  /\ UNCHANGED <<store, admitted>>
  /\ UNCHANGED codec

\* the bodies clients send: a long URL with any alias, or no long URL
Bodies ==
  (LongUrls \X Aliases) \cup {<<NULL, NULL>>}

Next ==
  \/ \E r \in Reqs, b \in Bodies : Submit(r, b[1], b[2])
  \/ \E r \in Reqs : InsertUrl(r)
  \/ \E r \in Reqs : UpdateShort(r)
  \/ \E r \in Reqs : Commit1(r)
  \/ \E r \in Reqs : SelectId(r)
  \/ \E r \in Reqs : InsertAlias(r)
  \/ \E r \in Reqs : Commit2(r)
  \/ \E r \in Reqs : SelectShort(r)
  \/ \E r \in Reqs : Locked(r)
  \/ \E r \in Reqs, t \in Tokens : get_url(r, t)
  \/ \E r \in Reqs : Deliver(r)

Spec == Init /\ [][Next]_vars

TypeOK ==
  /\ lock \in 0..NReq
  /\ lock = 0 => work = Committed
  /\ admitted \in 0..MaxRequests
  /\ \A r \in Reqs : pc[r] \in {"idle", "insert", "update", "commit1",
        "select_id", "insert_alias", "commit2", "select_short", "done"}

\* ------------------------------------------------------------- properties
RowsOf(rows, long_url) == {x \in rows : x.long_url = long_url}

\* request r takes its lookup step in this transition
GetStep(r) == pc[r] = "idle" /\ pc'[r] = "done" /\ body'[r].kind = "get"

\* C1: in every reachable state the urls table, committed or as the writing
\* session sees it, holds at most one row per long URL
C1_OneRowPerLongUrl ==
  \A rows \in {urls, work.urls} :
    \A x, y \in rows : x.long_url = y.long_url => x = y

\* a submission of a long URL that has a row ran its INSERT OR IGNORE
C1_Witness ==
  \E r \in Reqs :
    /\ IsPost(r)
    /\ pc[r] \in {"select_id", "select_short"}
    /\ rows_modified[r] = <<>>
    /\ ~unseen[r]
    /\ RowsOf(urls, body[r].long_url) # {}

\* a submission without alias of a long URL that had no row when it came,
\* holding its 200 response
FirstTimeOk(r) == Ok(r) /\ IsPost(r) /\ ~HasAlias(r) /\ unseen[r]

\* C2: concurrent first-time submissions, without alias, of one long URL:
\* once a caller holds a response exactly one row holds that long URL, and
\* any two callers holding responses hold the same shortId
C2_ConcurrentFirstSubmissions ==
  /\ \A r \in Reqs :
       FirstTimeOk(r) => Cardinality(RowsOf(urls, body[r].long_url)) = 1
  /\ \A r1, r2 \in Reqs :
       /\ FirstTimeOk(r1)
       /\ FirstTimeOk(r2)
       /\ body[r1].long_url = body[r2].long_url
       => resp[r1].json.short_id = resp[r2].json.short_id

\* two requests that both came before the long URL had a row both hold
\* their responses
C2_Witness ==
  \E r1, r2 \in Reqs :
    /\ r1 # r2
    /\ FirstTimeOk(r1)
    /\ FirstTimeOk(r2)
    /\ body[r1].long_url = body[r2].long_url
    /\ rows_modified[r1] # <<>>
    /\ rows_modified[r2] = <<>>

\* C3: all answers to submissions of one long URL without alias carry the
\* same shortId: those delivered, and those held against those delivered
C3_SameShortIdAgain ==
  /\ \A a, b \in returned :
       a[1] = b[1] /\ ~a[2] /\ ~b[2] => a[3] = b[3]
  /\ \A r \in Reqs : \A a \in returned :
       /\ Ok(r) /\ IsPost(r) /\ ~HasAlias(r)
       /\ a[1] = body[r].long_url /\ ~a[2]
       => resp[r].json.short_id = a[3]

\* a second submission without alias holds its response, the first one's
\* shortId being delivered, with a row of another long URL in the table
C3_Witness ==
  \E r \in Reqs :
    /\ Ok(r) /\ IsPost(r) /\ ~HasAlias(r)
    /\ <<body[r].long_url, FALSE, resp[r].json.short_id>> \in returned
    /\ rows_modified[r] = <<>>
    /\ Cardinality(urls) > 1

\* C4: a successful alias-carrying submission answers the short code of
\* the long URL's row, the base-62 encoding of its id, and the alias
C4_AliasRespCarriesShortCode ==
  \A r \in Reqs :
    Ok(r) /\ HasAlias(r) =>
      /\ \E x \in RowsOf(urls, body[r].long_url) :
           resp[r].json.short_id = encode_numeric_id(x.id)
      /\ resp[r].json.custom_alias = body[r].custom_alias

\* the alias rows that reference the row of long_url
AliasRowsOf(long_url) ==
  {a \in customaliases :
     \E x \in RowsOf(urls, long_url) : a.url_id = x.id}

\* the successful alias-carrying submissions of long_url: those delivered
\* and those held
AliasSubmissionsOk(long_url) ==
  aliasOk[long_url] +
  Cardinality({r \in Reqs :
                 Ok(r) /\ HasAlias(r) /\ body[r].long_url = long_url})

C5_Count ==
  \A l \in LongUrls : Cardinality(AliasRowsOf(l)) = AliasSubmissionsOk(l)

C5_Step ==
  /\ customaliases \subseteq customaliases'
  /\ \A r \in Reqs :
       pc[r] = "commit2" /\ pc'[r] = "done" =>
         \E a \in customaliases' :
           /\ customaliases' = customaliases \cup {a}
           /\ a \notin customaliases
           /\ a.alias = body[r].custom_alias
           /\ \E x \in RowsOf(urls', body[r].long_url) : a.url_id = x.id
  /\ (\A r \in Reqs : ~(pc[r] = "commit2" /\ pc'[r] = "done")) =>
       customaliases' = customaliases

\* C5: a successful alias-carrying submission adds exactly one alias row,
\* which references the row of its long URL; no other step changes an alias
\* row; the alias rows referencing a row number the successful
\* alias-carrying submissions of its long URL
C5_AliasesAccumulate == []C5_Count /\ [][C5_Step]_vars

\* two alias rows reference one row, after two submissions of its long URL
C5_Witness ==
  \E l \in LongUrls :
    /\ Cardinality(AliasRowsOf(l)) = 2
    /\ aliasOk[l] = 2
    /\ Cardinality(urls) > 1

\* C6: a lookup of a shortId that a delivered answer to a submission of
\* long URL L carried answers 200 with long_url = L
C6_Step ==
  \A r \in Reqs :
    GetStep(r) =>
      \A a \in returned :
        a[3] = body'[r].short_url =>
          resp'[r] = [status |-> 200, json |-> [long_url |-> a[1]]]

C6_ReturnedShortIdResolves == [][C6_Step]_vars

\* a lookup of a delivered shortId holds its answer, two rows being stored
C6_Witness ==
  \E r \in Reqs :
    /\ Ok(r) /\ IsGet(r)
    /\ \E a \in returned : a[3] = body[r].short_url
    /\ Cardinality(urls) > 1

\* C7: a lookup of a token that is no row's short code answers 404 with
\* detail "shortlink not found"; a lookup changes neither table
C7_Step ==
  \A r \in Reqs :
    GetStep(r) =>
      /\ (\A x \in urls : x.short_url # body'[r].short_url) =>
            /\ resp'[r].status = 404
            /\ resp'[r].json = [detail |-> "shortlink not found"]
      /\ UNCHANGED <<urls, customaliases, work>>

C7_UnknownTokenNotFound == [][C7_Step]_vars

\* a lookup holds a 404 answer
C7_Witness ==
  \E r \in Reqs :
    /\ pc[r] = "done" /\ IsGet(r) /\ resp[r].status = 404
    /\ urls # {}

\* C8: a lookup of the alias of an alias row answers the long URL of the row
\* the alias row references
C8_Step ==
  \A r \in Reqs :
    GetStep(r) =>
      \A a \in customaliases :
        a.alias = body'[r].short_url =>
          \E x \in urls :
            /\ x.id = a.url_id
            /\ resp'[r] = [status |-> 200, json |-> [long_url |-> x.long_url]]

C8_AliasResolves == [][C8_Step]_vars

\* C9: a lookup answers long URL L only when a row has the token as short
\* code and L as long URL; a token that is an alias and no row's short
\* code answers 404
C9_Step ==
  \A r \in Reqs :
    GetStep(r) =>
      /\ resp'[r].status \in {200, 404}
      /\ resp'[r].status = 200 =>
           \E x \in urls : /\ x.short_url = body'[r].short_url
                           /\ x.long_url = resp'[r].json.long_url
      /\ (/\ \E a \in customaliases : a.alias = body'[r].short_url
          /\ \A x \in urls : x.short_url # body'[r].short_url)
         => resp'[r] = NotFound

C9_CanonicalCodesOnly == [][C9_Step]_vars

\* a lookup of a token that is an alias and no row's short code holds 404
C9_Witness ==
  \E r \in Reqs :
    /\ pc[r] = "done" /\ IsGet(r) /\ resp[r].status = 404
    /\ \E a \in customaliases : a.alias = body[r].short_url
    /\ \A x \in urls : x.short_url # body[r].short_url

\* C10: a submission whose long URL is missing or empty is answered with a
\* validation error and runs no store operation
C10_EmptyLongUrlRejected ==
  \A r \in Reqs :
    IsPost(r) /\ body[r].long_url \in {NULL, <<>>} =>
      /\ pc[r] = "done"
      /\ resp[r].status = 422
      /\ \A x \in urls \cup work.urls : x.long_url # <<>>

\* C11: in every reachable state a row whose short code is set, committed
\* or in the writing session's tables, has short_url =
\* encode_numeric_id(id); and no step changes or removes a committed row
\* whose short code is set
C11_Inv ==
  \A x \in urls \cup work.urls :
    x.short_url # NULL => x.short_url = encode_numeric_id(x.id)

C11_Step == \A x \in urls : x.short_url # NULL => x \in urls'

C11_ShortCodeFixed == []C11_Inv /\ [][C11_Step]_vars

\* both rows hold their short codes and a submission with alias of a stored
\* long URL has committed
C11_Witness ==
  /\ Cardinality(urls) = 2
  /\ \A x \in urls : x.short_url # NULL
  /\ \E r \in Reqs : Ok(r) /\ HasAlias(r) /\ rows_modified[r] = <<>>

\* ------------------------------------------------------ the codec alone
\* the largest argument encoded: three symbols start at 62 * 62 = 3844
MaxNum == 4000

CodecInit ==
  /\ urls = {}
  /\ customaliases = {}
  /\ lock = 0
  /\ work = [urls |-> {}, customaliases |-> {}]
  /\ pc = [r \in Reqs |-> "idle"]
  /\ body = [r \in Reqs |-> NoBody]
  /\ rows_modified = [r \in Reqs |-> <<>>]
  /\ short_id = [r \in Reqs |-> NULL]
  /\ url_id = [r \in Reqs |-> 0]
  /\ custom_alias = [r \in Reqs |-> NULL]
  /\ resp = [r \in Reqs |-> NoResp]
  /\ unseen = [r \in Reqs |-> FALSE]
  /\ returned = {}
  /\ aliasOk = [l \in LongUrls |-> 0]
  /\ admitted = 0
  /\ num \in 0..MaxNum
  /\ encoded = NULL

\* short_id = encode_numeric_id(row_id), line 88
Encode ==
  /\ encoded = NULL
  /\ encoded' = encode_numeric_id(num)
  /\ UNCHANGED <<store, pc, body, locals, resp, hist, num>>

CodecNext == Encode

CodecSpec == CodecInit /\ [][CodecNext]_vars

\* the index of symbol c in the alphabet, from 0
SymbolIndex(c) == (CHOOSE i \in 1..Len(BASE62) : BASE62[i] = c) - 1

\* the base-62 positional value of a string, most significant symbol first
RECURSIVE Decode(_)
Decode(str) ==
  IF str = <<>> THEN 0
  ELSE Decode(SubSeq(str, 1, Len(str) - 1)) * base + SymbolIndex(str[Len(str)])

\* C12: encode_numeric_id(n) is a non-empty string over 0-9a-zA-Z whose
\* base-62 positional value is n, and encode_numeric_id(0) is "0"
C12_RoundTrip ==
  encoded # NULL =>
    /\ Len(encoded) > 0
    /\ \A i \in 1..Len(encoded) : encoded[i] \in Range(BASE62)
    /\ Decode(encoded) = num
    /\ num = 0 => encoded = <<"0">>

\* a three-symbol code has been computed
C12_Witness == encoded # NULL /\ num >= 3844 /\ Len(encoded) = 3

\* request r takes a step of its handler in this transition
HandlerStep(r) == pc[r] \notin {"idle", "done"} /\ pc'[r] # pc[r]

\* a submission without alias of a long URL that had a row when it came
Resubmission(r) == IsPost(r) /\ ~HasAlias(r) /\ ~unseen[r]

\* C13: no step of a submission without alias of an already-stored long URL
\* changes the urls table or the customaliases table, and the transaction
\* it leaves open holds no write
C13_Step ==
  \A r \in Reqs :
    HandlerStep(r) /\ Resubmission(r) =>
      /\ urls' = urls
      /\ customaliases' = customaliases
      /\ lock' = r => work' = Committed

C13_ResubmissionChangesNothing == [][C13_Step]_vars

\* a resubmission without alias holds its answer; alias rows are stored
C13_Witness ==
  \E r \in Reqs :
    /\ Ok(r) /\ Resubmission(r)
    /\ customaliases # {}

\* C14: the custom_alias a successful alias-carrying submission answers is
\* the alias of the row it inserted and the alias the caller submitted
C14_Step ==
  \A r \in Reqs :
    pc[r] = "commit2" /\ pc'[r] = "done" =>
      /\ resp'[r].status = 200
      /\ resp'[r].json.custom_alias = body[r].custom_alias
      /\ \E a \in customaliases' \ customaliases :
           a.alias = resp'[r].json.custom_alias

C14_AliasEchoed == [][C14_Step]_vars

\* an alias-carrying submission holds its answer, its alias row stored
C14_Witness ==
  \E r \in Reqs :
    /\ Ok(r) /\ HasAlias(r)
    /\ resp[r].json.custom_alias = <<"2">>
    /\ \E a \in customaliases : a.alias = <<"2">>

\* C17: no two distinct rows have the same short code, so a lookup by
\* short code matches at most one row
C17_ShortCodesDistinct ==
  /\ \A rows \in {urls, work.urls} :
       \A x, y \in rows :
         x.short_url # NULL /\ x.short_url = y.short_url => x = y
  /\ \A t \in Tokens : Cardinality(SelectByShortUrl(urls, t)) <= 1

\* two rows hold short codes and a lookup has matched one
C17_Witness ==
  /\ Cardinality({x.short_url : x \in urls} \ {NULL}) = 2
  /\ \E r \in Reqs : Ok(r) /\ IsGet(r)

\* a submission whose custom_alias is the empty string
EmptyAlias(r) == IsPost(r) /\ body[r].custom_alias = <<>>

\* C18: a submission whose custom_alias is the empty string inserts no
\* alias row, and its answer carries short_id alone, the short code of the
\* long URL's row
C18_Inv ==
  \A r \in Reqs :
    Ok(r) /\ EmptyAlias(r) =>
      /\ DOMAIN resp[r].json = {"short_id"}
      /\ \E x \in RowsOf(urls, body[r].long_url) :
           resp[r].json.short_id = x.short_url

C18_Step ==
  \A r \in Reqs :
    HandlerStep(r) /\ EmptyAlias(r) =>
      /\ customaliases' = customaliases
      /\ lock' = r => work'.customaliases = customaliases

C18_EmptyAliasIsNoAlias == []C18_Inv /\ [][C18_Step]_vars

\* submissions with the empty alias hold their answers, the first of a
\* long URL and a later one
C18_Witness ==
  \E r1, r2 \in Reqs :
    /\ Ok(r1) /\ EmptyAlias(r1) /\ rows_modified[r1] # <<>>
    /\ Ok(r2) /\ EmptyAlias(r2) /\ rows_modified[r2] = <<>>

\* the winner: its insert has made the row, its commit has not run yet
InWindow(r) == IsPost(r) /\ pc[r] \in {"update", "commit1"}

\* the loser: a submission without alias of a long URL that had no row when
\* it came, whose insert was ignored
Loser(r) ==
  /\ IsPost(r) /\ ~HasAlias(r) /\ unseen[r]
  /\ pc[r] \in {"select_short", "done"}
  /\ rows_modified[r] = <<>>

\* the INSERT OR IGNORE of request r runs and is ignored
IgnoredInsert(r) == InsertUrl(r) /\ rows_modified'[r] = <<>>

\* C15 as stated: while the winner is between its insert and its commit,
\* the insert of a concurrent submission of the same long URL can run and
\* be ignored, so that the loser goes on to read the row without short code
C15_WindowOpen ==
  \A r1, r2 \in Reqs :
    /\ r1 # r2 /\ InWindow(r1)
    /\ pc[r2] = "insert" /\ body[r2].long_url = body[r1].long_url
    => ENABLED IgnoredInsert(r2)

\* C15, amended: no committed row is without short code, and the loser of
\* two concurrent first submissions reads the row with the winner's short
\* code in it: what it answers is that short code, never NULL
C15_Inv ==
  /\ \A x \in urls : x.short_url # NULL
  /\ \A r \in Reqs :
       Loser(r) =>
         /\ \A x \in RowsOf(View(r).urls, body[r].long_url) :
              x.short_url = encode_numeric_id(x.id)
         /\ Ok(r) => /\ resp[r].json.short_id # NULL
                     /\ \E x \in RowsOf(urls, body[r].long_url) :
                          resp[r].json.short_id = x.short_url

C15_Step ==
  \A r1, r2 \in Reqs :
    InWindow(r1) /\ r1 # r2 /\ pc[r2] = "insert" /\ pc'[r2] # "insert" =>
      pc'[r2] = "done" /\ resp'[r2] = ServerError

C15_LoserReadsShortCode == []C15_Inv /\ [][C15_Step]_vars

\* both concurrent first submissions hold their answers, the loser's carrying
\* the winner's short code
C15_Witness ==
  \E r1, r2 \in Reqs :
    /\ Ok(r1) /\ IsPost(r1) /\ unseen[r1] /\ rows_modified[r1] # <<>>
    /\ Ok(r2) /\ Loser(r2) /\ body[r2].long_url = body[r1].long_url
    /\ resp[r2].json.short_id = short_id[r1]

\* ------------------------------------------------------- fair scheduling
\* the UPDATE or the commit raises (a storage failure at lines 94-97): the
\* handler ends with a 500 and the close of get_session rolls the insert back
Fail(r) ==
  /\ pc[r] \in {"update", "commit1"}
  /\ pc' = [pc EXCEPT ![r] = "done"]
  /\ resp' = [resp EXCEPT ![r] = ServerError]
  /\ CloseSession(r)
  /\ UNCHANGED <<body, locals, hist>>
  /\ UNCHANGED codec

\* the steps of the handler serving request r
Handler(r) ==
  \/ InsertUrl(r)
  \/ UpdateShort(r)
  \/ Commit1(r)
  \/ SelectId(r)
  \/ InsertAlias(r)
  \/ Commit2(r)
  \/ SelectShort(r)
  \/ Locked(r)
  \/ Fail(r)

FairNext ==
  \/ Next
  \/ \E r \in Reqs : Fail(r)

\* a handler that can take its next step takes it
FairSpec ==
  /\ Init
  /\ [][FairNext]_vars
  /\ \A r \in Reqs : WF_vars(Handler(r))

\* the rows of the store, committed or not, that have no short code
NullRows == {x \in urls \cup work.urls : x.short_url = NULL}

\* C16: a row that is in the store without short code does not stay so:
\* it gets its short code or, when the request that inserted it fails, it
\* is rolled back with the insert
C16_EventuallyShortCode ==
  \A l \in LongUrls :
    (\E x \in NullRows : x.long_url = l) ~> ~(\E x \in NullRows : x.long_url = l)

\* the request that inserted a row has failed after the insert and holds its
\* 500: the row is gone, and the other rows have their short codes
C16_Witness ==
  \E r \in Reqs :
    /\ pc[r] = "done" /\ rows_modified[r] # <<>> /\ resp[r] = ServerError
    /\ RowsOf(urls, body[r].long_url) = {}
    /\ urls # {} /\ NullRows = {}
====
